---- MODULE Spec2Model ----
(***************************************************************************)
(* Cart, checkout and order-settlement core of the storefront Worker API   *)
(* (index.ts, kept in src/unnamed/part_006) over the PostgreSQL schema     *)
(* (src/unnamed/part_000).                                                 *)
(* The database is reached through the Neon HTTP driver: every sql`...`    *)
(* statement is its own auto-committed transaction, so a request handler   *)
(* is a sequence of atomic statements that interleave with the statements  *)
(* of other handlers.                                                      *)
(***************************************************************************)
EXTENDS Integers, Sequences, FiniteSets, TLC

\* ------------------------------------------------------------------ bounds
MaxItems == 2
MaxStock == 1
MaxDeliveries == 2
MaxFaults == 1
MaxRequests == 2

\* ------------------------------------------------------------- value sets
NoUser == "none"
NoVariant == "none"
NoToken == <<"none", 0>>
NoCart == 0
NoSess == 0
NoOrder == 0
NoError == "none"
NoEvent == "none"
NoResp == 0
NoCustomer == <<"none", 0>>

Users == {"u1"}
Products == {"A", "B"}
Variants == {"VB"}
Handlers == {1, 2}

\* Events the payment processor may deliver. EvObj is the id of the Checkout
\* Session (checkout.session.completed) or of the PaymentIntent (the other
\* kinds) the event is about; session 0 is a Checkout Session that was not
\* created by checkout.post('/session') and carries no metadata.
EventIds == {"e1", "e2", "e3", "e4", "e5", "e6", "e7"}
CheckoutEvents == {"e1", "e2", "e3", "e4"}
EvType(e) ==
    CASE e \in {"e1", "e2", "e3", "e4"} -> "checkout.session.completed"
      [] e = "e5" -> "payment_intent.payment_failed"
      [] e = "e6" -> "charge.refunded"
      [] OTHER -> "customer.created"
EvObj(e) ==
    CASE e \in {"e1", "e2", "e5", "e6"} -> 1
      [] e = "e3" -> 2
      [] OTHER -> 0

\* products.price_cents / products.name (seed-like catalog rows)
ProductPrice(p) == IF p = "A" THEN 1000 ELSE 2000
ProductName(p) == p
\* variants.price_cents (NULL inherits the product price) / variants.name
VariantPrice(v) == 2500
VariantName(v) == IF v = NoVariant THEN "none" ELSE v

\* const { product_id, variant_id, quantity = 1 } = await c.req.json()
DefaultQuantity == 1

\* The checkout requests of a behaviour: the shopper presses "checkout" once.
Checkouts == {1}

\* what a shopper can put in a cart: a product alone, or a product's variant
ItemChoices == {<<"A", NoVariant>>, <<"B", "VB">>}

\* ids of the Checkout Sessions a behaviour can create
SessionIds == {1, 2}

\* request contexts of the cart routes
Reqs == {1, 2}

\* a request context that serves no request
IdleReq ==
    [pc |-> "idle", op |-> "none", caller |-> [user |-> NoUser, token |-> NoToken],
     product |-> "none", variant |-> NoVariant, quantity |-> 0, item |-> 0,
     cart |-> NoCart, price |-> 0, stock_qty |-> 0, status |-> NoResp, snap |-> << >>,
     wrote |-> FALSE, session |-> NoSess, asked |-> FALSE]

VARIABLES
    stock,        \* variants.stock_qty
    users,        \* users.stripe_customer_id
    carts,        \* table carts (a sequence, in created_at order; id = index)
    cart_items,   \* table cart_items (a sequence, in created_at order)
    nItems,       \* number of cart_items rows ever inserted (row ids)
    sessions,     \* Checkout Sessions held by the payment processor (id = index)
    orders,       \* table orders (a sequence; id = index)
    order_items,  \* table order_items (a sequence)
    ledger,       \* table stripe_webhook_events (a set of rows)
    hs,           \* the webhook request handlers in flight
    nDeliv,       \* deliveries made so far
    faults,       \* statements of processStripeEvent that failed so far
    decCount,     \* history: stock UPDATEs executed per <<session, line>>
    drift,        \* history: sessions whose cart was mutated after creation
    firstAck,     \* history: HTTP status of the first finished delivery per event
    price_cents,  \* products.price_cents and variants.price_cents
    product_name, \* products.name
    rejectedFirst, \* history: events first seen in a request that was rejected
    rq,           \* the cart requests in flight
    nReq,         \* cart requests made so far
    stock0        \* history: variants.stock_qty at the start

vars == <<stock, users, carts, cart_items, nItems, sessions, orders, order_items,
          ledger, hs, nDeliv, faults, decCount, drift, firstAck, price_cents, product_name, rejectedFirst, rq,
          nReq, stock0>>

dbVars == <<stock, users, carts, cart_items, nItems, orders, order_items, ledger>>
cartVars == <<carts, cart_items, nItems>>
histVars == <<decCount, drift, firstAck>>
\* what the settlement handlers and the one-step cart operations leave alone
shopVars == <<price_cents, product_name, rejectedFirst, rq, nReq, stock0>>

\* ------------------------------------------------------------ sequences
RECURSIVE SumSeq(_)
SumSeq(s) == IF s = << >> THEN 0 ELSE Head(s) + SumSeq(Tail(s))

Range(s) == {s[i] : i \in DOMAIN s}

MapSeq(s, F(_)) == [i \in DOMAIN s |-> F(s[i])]

\* ------------------------------------------------------------ Cart Resolver
\* resolveCart(c, sql, create): the cart row of the caller, created when asked.
\* Returns the carts table afterwards and the resolved cart id (NoCart: undefined).
LatestUserCart(cs, u) ==
    LET mine == {i \in DOMAIN cs : cs[i].user_id = u}
    IN  IF mine = {} THEN NoCart ELSE CHOOSE i \in mine : \A j \in mine : j <= i

TokenCart(cs, t) ==
    LET mine == {i \in DOMAIN cs : cs[i].session_token = t}
    IN  IF mine = {} THEN NoCart ELSE CHOOSE i \in mine : \A j \in mine : i <= j

NewCart(cs, u, t) ==
    [id |-> Len(cs) + 1, user_id |-> u, session_token |-> t, stripe_session_id |-> NoSess]

\* crypto.randomUUID(): a value no cart carries yet
MintToken(cs) == <<"uuid", Len(cs) + 1>>

resolveCart(cs, caller, create) ==
    IF caller.user # NoUser THEN
        LET found == LatestUserCart(cs, caller.user)
        IN  IF found = NoCart /\ create
            THEN [carts |-> Append(cs, NewCart(cs, caller.user, NoToken)), cart |-> Len(cs) + 1]
            ELSE [carts |-> cs, cart |-> found]
    ELSE IF caller.token # NoToken THEN
        LET found == TokenCart(cs, caller.token)
        IN  IF found = NoCart /\ create
            THEN [carts |-> Append(cs, NewCart(cs, NoUser, caller.token)), cart |-> Len(cs) + 1]
            ELSE [carts |-> cs, cart |-> found]
    ELSE IF create
        THEN [carts |-> Append(cs, NewCart(cs, NoUser, MintToken(cs))), cart |-> Len(cs) + 1]
        ELSE [carts |-> cs, cart |-> NoCart]

\* getCartWithItems(cartId, sql): the rows of the cart, ORDER BY created_at,
\* joined with the product and variant names
CartRows(items, c) == SelectSeq(items, LAMBDA r : r.cart_id = c)

\* The requests of the storefront client (api.ts): a signed-in shopper sends the
\* JWT of its user; a guest browser sends the X-Cart-Token it stored from the
\* last response, and none before the first one.
GuestToken ==
    LET mine == {i \in DOMAIN carts : carts[i].session_token # NoToken}
    IN  IF mine = {} THEN NoToken
        ELSE carts[CHOOSE i \in mine : \A j \in mine : j <= i].session_token

Callers ==
    {[user |-> u, token |-> NoToken] : u \in Users}
    \cup {[user |-> NoUser, token |-> GuestToken]}

\* sessions that froze the items of cart c
SessionsOfCart(c) == {i \in DOMAIN sessions : sessions[i].cart_id = c}

\* ----------------------------------------------------- Cart Item Ledger
\* INSERT INTO cart_items ... ON CONFLICT (cart_id, product_id, variant_id)
\* DO UPDATE SET quantity = cart_items.quantity + quantity.
\* The UNIQUE constraint treats NULL variant_id values as distinct, so a row
\* without variant never conflicts.
Conflicts(items, c, p, v) ==
    {i \in DOMAIN items :
        /\ items[i].cart_id = c
        /\ items[i].product_id = p
        /\ v # NoVariant
        /\ items[i].variant_id = v}

UpsertItem(items, id, c, p, v, q, price) ==
    LET hit == Conflicts(items, c, p, v)
    IN  IF hit = {}
        THEN Append(items, [id |-> id, cart_id |-> c, product_id |-> p, variant_id |-> v,
                            quantity |-> q, price_cents |-> price])
        ELSE [i \in DOMAIN items |->
                IF i \in hit THEN [items[i] EXCEPT !.quantity = @ + q] ELSE items[i]]

\* cart.post('/items'): answers 201 with the cart
AddItem(caller, p, v, q) ==
    /\ nItems < MaxItems
    /\ IF v # NoVariant THEN stock[v] >= q ELSE TRUE   \* else 400 Insufficient stock
    /\ LET price == IF v # NoVariant THEN price_cents[v] ELSE price_cents[p]
           res == resolveCart(carts, caller, TRUE)
       IN  /\ carts' = res.carts
           /\ cart_items' = UpsertItem(cart_items, nItems + 1, res.cart, p, v, q, price)
           /\ nItems' = nItems + 1
           /\ drift' = drift \cup SessionsOfCart(res.cart)
    /\ UNCHANGED <<stock, users, sessions, orders, order_items, ledger, hs, nDeliv,
                   faults, decCount, firstAck>>
    /\ UNCHANGED shopVars

\* ------------------------------------------------ Checkout Session Builder
\* items.map(item => ({price_data: {...}, quantity})): the frozen line item
FreezeLine(item) ==
    [product_id |-> item.product_id,
     variant_id |-> item.variant_id,
     name |-> <<product_name[item.product_id], VariantName(item.variant_id)>>,
     unit_amount |-> item.price_cents,
     quantity |-> item.quantity]

LineTotal(li) == li.unit_amount * li.quantity

\* Faulty variant: the UPDATE also takes the cart from its anonymous owner
RecordSessionAndDetach(cs, c, sid) ==
    [cs EXCEPT ![c].stripe_session_id = sid, ![c].session_token = NoToken]

\* UPDATE carts SET stripe_session_id = session.id WHERE id = cartRow.id
RecordSession(cs, c, sid) == [cs EXCEPT ![c].stripe_session_id = sid]

\* checkout.post('/session'), from resolveCart to the UPDATE of the cart
Checkout(caller) ==
    /\ LET res == resolveCart(carts, caller, FALSE)
           items == CartRows(cart_items, res.cart)
           sid == Len(sessions) + 1
           customer == IF caller.user # NoUser /\ users[caller.user] # NoCustomer
                       THEN users[caller.user] ELSE <<"cus", sid>>
       IN  /\ res.cart # NoCart                        \* else 400 Cart is empty
           /\ items # << >>                            \* else 400 Cart is empty
           /\ sessions' = Append(sessions,
                 [id |-> sid,
                  line_items |-> MapSeq(items, FreezeLine),
                  cart_id |-> res.cart,
                  user_id |-> IF caller.user # NoUser THEN caller.user ELSE "anonymous",
                  customer |-> customer,
                  payment_intent |-> sid,
                  amount_subtotal |-> SumSeq(MapSeq(MapSeq(items, FreezeLine), LineTotal))])
           /\ carts' = RecordSession(carts, res.cart, sid)
    /\ UNCHANGED <<stock, users, cart_items, nItems, orders, order_items, ledger, hs,
                   nDeliv, faults, histVars>>
    /\ UNCHANGED shopVars

\* checkout.post('/session'), pressed once
CreateSession(caller) ==
    /\ Len(sessions) + 1 \in Checkouts
    /\ Checkout(caller)

\* ------------------------------------- the cart routes, statement by statement
\* A cart request runs in a request context r: rq[r] holds the request (op,
\* caller, body), the handler's locals (cart, price, stock_qty), the statement
\* it is at (pc) and, once done, the response (status, snap). wrote records
\* whether a statement of the request changed table carts or cart_items.

\* an X-Cart-Token the client made up instead of storing it from a response
ClientToken == <<"client", 1>>

\* The callers of the cart routes: optionalAuth sets userId from a valid JWT;
\* the browser sends the X-Cart-Token it stored, with or without a JWT.
CartCallers ==
    {[user |-> u, token |-> t] : u \in Users, t \in {NoToken, GuestToken}}
    \cup {[user |-> NoUser, token |-> t] : t \in {GuestToken, ClientToken}}

\* request bodies: a product that does not exist, and quantities below 1
AddChoices == ItemChoices \cup {<<"Z", NoVariant>>}
Quantities == {-1, 0, 1}
UpdateQuantities == {0, 2}

FreeReq(r) == rq[r].pc \in {"idle", "done"}
FirstFreeReq(r) == FreeReq(r) /\ \A g \in Reqs : g < r => ~FreeReq(g)

Begin(r, req) ==
    /\ FirstFreeReq(r)
    /\ nReq < MaxRequests
    /\ nReq' = nReq + 1
    /\ rq' = [rq EXCEPT ![r] = req]
    /\ UNCHANGED <<dbVars, sessions, hs, nDeliv, faults, histVars, price_cents, product_name, rejectedFirst, stock0>>

\* cart.post('/items'), up to the call of resolveCart: the product and variant
\* SELECTs and the stock check
StartAdd(r, caller, p, v, q) ==
    LET req == [IdleReq EXCEPT !.op = "add", !.caller = caller, !.product = p,
                               !.variant = v, !.quantity = q]
    IN  IF p \notin Products
        THEN Begin(r, [req EXCEPT !.pc = "done", !.status = 404])
        ELSE IF v = NoVariant
        THEN Begin(r, [req EXCEPT !.pc = "resolve", !.price = price_cents[p]])
        ELSE IF stock[v] < q
        THEN Begin(r, [req EXCEPT !.pc = "done", !.status = 400, !.stock_qty = stock[v]])
        ELSE Begin(r, [req EXCEPT !.pc = "resolve", !.price = price_cents[v],
                                  !.stock_qty = stock[v]])

\* cart.patch('/items/:itemId'), up to the call of resolveCart
StartUpdate(r, caller, item, q) ==
    LET req == [IdleReq EXCEPT !.op = "update", !.caller = caller, !.item = item,
                               !.quantity = q]
    IN  IF q < 1
        THEN Begin(r, [req EXCEPT !.pc = "done", !.status = 400])
        ELSE Begin(r, [req EXCEPT !.pc = "resolve"])

\* cart.delete('/items/:itemId'), up to the call of resolveCart
StartRemove(r, caller, item) ==
    Begin(r, [IdleReq EXCEPT !.op = "remove", !.caller = caller, !.item = item,
                             !.pc = "resolve"])

\* Faulty variant: the X-Cart-Token is looked up before the identity
FindCartTokenFirst(cs, caller) ==
    IF caller.token # NoToken THEN TokenCart(cs, caller.token)
    ELSE IF caller.user # NoUser THEN LatestUserCart(cs, caller.user)
    ELSE NoCart

\* resolveCart: the SELECT of the caller's cart
FindCart(cs, caller) ==
    IF caller.user # NoUser THEN LatestUserCart(cs, caller.user)
    ELSE IF caller.token # NoToken THEN TokenCart(cs, caller.token)
    ELSE NoCart

ResolveSelect(r) ==
    /\ rq[r].pc = "resolve"
    /\ LET found == FindCart(carts, rq[r].caller)
       IN  rq' = [rq EXCEPT ![r] =
                IF found # NoCart
                THEN [@ EXCEPT !.cart = found,
                               !.pc = IF rq[r].op = "checkout" THEN "items" ELSE "write"]
                ELSE IF @.op = "add" THEN [@ EXCEPT !.pc = "mkcart"]
                ELSE [@ EXCEPT !.pc = "done",
                               !.status = IF rq[r].op = "checkout" THEN 400 ELSE 404]]
    /\ UNCHANGED <<dbVars, sessions, hs, nDeliv, faults, histVars, price_cents, product_name, rejectedFirst, nReq, stock0>>

\* resolveCart: the INSERT INTO carts of the branch taken
CartFor(cs, caller) ==
    IF caller.user # NoUser THEN NewCart(cs, caller.user, NoToken)
    ELSE IF caller.token # NoToken THEN NewCart(cs, NoUser, caller.token)
    ELSE NewCart(cs, NoUser, MintToken(cs))

ResolveInsert(r) ==
    /\ rq[r].pc = "mkcart"
    /\ carts' = Append(carts, CartFor(carts, rq[r].caller))
    /\ rq' = [rq EXCEPT ![r].cart = Len(carts) + 1, ![r].pc = "write", ![r].wrote = TRUE]
    /\ UNCHANGED <<stock, users, cart_items, nItems, orders, order_items, ledger, sessions,
                   hs, nDeliv, faults, histVars, price_cents, product_name, rejectedFirst, nReq, stock0>>

\* Faulty variant: table cart_items without CHECK (quantity > 0)
NoQuantityCheck(q) == FALSE

\* CHECK (quantity > 0) of table cart_items, violated by the proposed row
ViolatesCheck(q) == ~(q > 0)

\* the INSERT ... ON CONFLICT of cart.post('/items'); the proposed row is
\* checked against CHECK (quantity > 0) before the conflict is looked for
WriteAdd(r) ==
    /\ rq[r].pc = "write" /\ rq[r].op = "add"
    /\ LET q == rq[r].quantity
           c == rq[r].cart
       IN  IF ViolatesCheck(q)
           THEN /\ rq' = [rq EXCEPT ![r].pc = "done", ![r].status = 500]
                /\ UNCHANGED <<cart_items, nItems, drift>>
           ELSE /\ cart_items' = UpsertItem(cart_items, nItems + 1, c, rq[r].product,
                                            rq[r].variant, q, rq[r].price)
                /\ nItems' = IF Conflicts(cart_items, c, rq[r].product, rq[r].variant) = {}
                             THEN nItems + 1 ELSE nItems
                /\ drift' = drift \cup SessionsOfCart(c)
                /\ rq' = [rq EXCEPT ![r].pc = "respond", ![r].wrote = TRUE]
    /\ UNCHANGED <<stock, users, carts, orders, order_items, ledger, sessions, hs, nDeliv,
                   faults, decCount, firstAck, price_cents, product_name, rejectedFirst, nReq, stock0>>

\* UPDATE cart_items SET quantity = ... WHERE id = itemId AND cart_id = cartRow.id
SetQuantity(items, c, item, q) ==
    [i \in DOMAIN items |->
        IF items[i].id = item /\ items[i].cart_id = c
        THEN [items[i] EXCEPT !.quantity = q] ELSE items[i]]

WriteUpdate(r) ==
    /\ rq[r].pc = "write" /\ rq[r].op = "update"
    /\ cart_items' = SetQuantity(cart_items, rq[r].cart, rq[r].item, rq[r].quantity)
    /\ drift' = IF cart_items' # cart_items THEN drift \cup SessionsOfCart(rq[r].cart) ELSE drift
    /\ rq' = [rq EXCEPT ![r].pc = "respond", ![r].wrote = (cart_items' # cart_items)]
    /\ UNCHANGED <<stock, users, carts, nItems, orders, order_items, ledger, sessions, hs,
                   nDeliv, faults, decCount, firstAck, price_cents, product_name, rejectedFirst, nReq, stock0>>

\* DELETE FROM cart_items WHERE id = itemId AND cart_id = cartRow.id
DeleteItem(items, c, item) ==
    SelectSeq(items, LAMBDA row : ~(row.id = item /\ row.cart_id = c))

WriteRemove(r) ==
    /\ rq[r].pc = "write" /\ rq[r].op = "remove"
    /\ cart_items' = DeleteItem(cart_items, rq[r].cart, rq[r].item)
    /\ drift' = IF cart_items' # cart_items THEN drift \cup SessionsOfCart(rq[r].cart) ELSE drift
    /\ rq' = [rq EXCEPT ![r].pc = "respond", ![r].wrote = (cart_items' # cart_items)]
    /\ UNCHANGED <<stock, users, carts, nItems, orders, order_items, ledger, sessions, hs,
                   nDeliv, faults, decCount, firstAck, price_cents, product_name, rejectedFirst, nReq, stock0>>

\* getCartWithItems and the response: 201 for an add, 200 otherwise
Respond(r) ==
    /\ rq[r].pc = "respond"
    /\ rq' = [rq EXCEPT ![r].pc = "done",
                        ![r].status = IF rq[r].op = "add" THEN 201 ELSE 200,
                        ![r].snap = CartRows(cart_items, rq[r].cart)]
    /\ UNCHANGED <<dbVars, sessions, hs, nDeliv, faults, histVars, price_cents, product_name, rejectedFirst, nReq, stock0>>

CartStep(r) ==
    \/ ResolveSelect(r)
    \/ ResolveInsert(r)
    \/ WriteAdd(r)
    \/ WriteUpdate(r)
    \/ WriteRemove(r)
    \/ Respond(r)

\* admin.put('/products/:id'): price_cents = COALESCE(new, price_cents)
Repriced(p) == ProductPrice(p) + 100

SetPrice(p) ==
    /\ price_cents[p] = ProductPrice(p)
    /\ price_cents' = [price_cents EXCEPT ![p] = Repriced(p)]
    /\ UNCHANGED <<dbVars, sessions, hs, nDeliv, faults, histVars, product_name, rejectedFirst, rq, nReq,
                   stock0>>

\* admin.put('/products/:id'): name = COALESCE(new, name)
Renamed(p) == IF p = "A" THEN "A2" ELSE "B2"

SetName(p) ==
    /\ product_name[p] = ProductName(p)
    /\ product_name' = [product_name EXCEPT ![p] = Renamed(p)]
    /\ UNCHANGED <<dbVars, sessions, hs, nDeliv, faults, histVars, price_cents,
                   rejectedFirst, rq, nReq, stock0>>

\* --------------------------- checkout.post('/session'), statement by statement
\* The request runs in a request context like the cart routes: resolveCart
\* (ResolveSelect, 400 without a cart), getCartWithItems (400 without items),
\* the request to the payment processor, and the UPDATE of the cart. asked
\* records that the payment processor was sent a request, session the id of
\* the Checkout Session it answered with.
StartCheckout(r, caller) ==
    Begin(r, [IdleReq EXCEPT !.op = "checkout", !.caller = caller, !.pc = "resolve"])

\* getCartWithItems and items.map(...): the line items of the request
CheckoutItems(r) ==
    /\ rq[r].pc = "items" /\ rq[r].op = "checkout"
    /\ LET items == CartRows(cart_items, rq[r].cart)
       IN  rq' = [rq EXCEPT ![r] =
                IF items = << >> THEN [@ EXCEPT !.pc = "done", !.status = 400]
                ELSE [@ EXCEPT !.pc = "stripe", !.snap = MapSeq(items, FreezeLine)]]
    /\ UNCHANGED <<dbVars, sessions, hs, nDeliv, faults, histVars, price_cents, product_name,
                   rejectedFirst, nReq, stock0>>

\* the Checkout Session the payment processor creates for the request
NewSession(r, sid) ==
    LET caller == rq[r].caller
    IN  [id |-> sid,
         line_items |-> rq[r].snap,
         cart_id |-> rq[r].cart,
         user_id |-> IF caller.user # NoUser THEN caller.user ELSE "anonymous",
         customer |-> IF caller.user # NoUser /\ users[caller.user] # NoCustomer
                      THEN users[caller.user] ELSE <<"cus", sid>>,
         payment_intent |-> sid,
         amount_subtotal |-> SumSeq(MapSeq(rq[r].snap, LineTotal))]

\* SELECT stripe_customer_id and stripe.checkout.sessions.create, answered
StripeCreate(r) ==
    /\ rq[r].pc = "stripe"
    /\ Len(sessions) + 1 \in SessionIds
    /\ sessions' = Append(sessions, NewSession(r, Len(sessions) + 1))
    /\ rq' = [rq EXCEPT ![r].pc = "record", ![r].asked = TRUE,
                        ![r].session = Len(sessions) + 1]
    /\ UNCHANGED <<dbVars, hs, nDeliv, faults, histVars, price_cents, product_name, rejectedFirst, nReq,
                   stock0>>

\* Faulty variant: the cart is stamped before the payment processor answers
StripeErrorAfterStamp(r) ==
    /\ rq[r].pc = "stripe"
    /\ faults < MaxFaults
    /\ faults' = faults + 1
    /\ sessions' = sessions
    /\ carts' = [carts EXCEPT ![rq[r].cart].stripe_session_id = 0]
    /\ rq' = [rq EXCEPT ![r].pc = "done", ![r].status = 500, ![r].asked = TRUE,
                        ![r].wrote = TRUE]
    /\ UNCHANGED <<stock, users, cart_items, nItems, orders, order_items, ledger, hs, nDeliv,
                   histVars, price_cents, product_name, rejectedFirst, nReq, stock0>>

\* stripe.checkout.sessions.create throws (an error answer or a timeout; the
\* processor may have created the session all the same); app.onError answers 500
StripeError(r) ==
    /\ rq[r].pc = "stripe"
    /\ faults < MaxFaults
    /\ faults' = faults + 1
    /\ \/ sessions' = sessions
       \/ /\ Len(sessions) + 1 \in SessionIds
          /\ sessions' = Append(sessions, NewSession(r, Len(sessions) + 1))
    /\ rq' = [rq EXCEPT ![r].pc = "done", ![r].status = 500, ![r].asked = TRUE]
    /\ UNCHANGED <<dbVars, hs, nDeliv, histVars, price_cents, product_name, rejectedFirst, nReq, stock0>>

\* UPDATE carts SET stripe_session_id = session.id, and the response
RecordCart(r) ==
    /\ rq[r].pc = "record"
    /\ carts' = RecordSession(carts, rq[r].cart, rq[r].session)
    /\ rq' = [rq EXCEPT ![r].pc = "done", ![r].status = 200, ![r].wrote = TRUE]
    /\ UNCHANGED <<stock, users, cart_items, nItems, orders, order_items, ledger, sessions,
                   hs, nDeliv, faults, histVars, price_cents, product_name, rejectedFirst, nReq, stock0>>

CheckoutStep(r) ==
    \/ CheckoutItems(r)
    \/ StripeCreate(r)
    \/ StripeError(r)
    \/ RecordCart(r)

\* ------------------------------------------------------ Settlement Engine
Idle == [pc |-> "idle", ev |-> NoEvent, li |-> 0, order |-> NoOrder,
         err |-> NoError, resp |-> NoResp, dup |-> FALSE]

ForeignSession ==
    [id |-> 0, line_items |-> << >>, cart_id |-> NoCart, user_id |-> "anonymous",
     customer |-> <<"cus", 0>>, payment_intent |-> 0, amount_subtotal |-> 0]

\* event.data.object of a checkout.session.completed event
SessionOf(e) == IF EvObj(e) = 0 THEN ForeignSession ELSE sessions[EvObj(e)]

\* session.metadata?.user_id !== 'anonymous' ? session.metadata?.user_id : null
SessionUser(s) == IF s.user_id # "anonymous" THEN s.user_id ELSE NoUser

Sent(e) == EvObj(e) = 0 \/ EvObj(e) <= Len(sessions)

Ack(e, status) ==
    firstAck' = IF firstAck[e] = NoResp THEN [firstAck EXCEPT ![e] = status] ELSE firstAck

\* The Worker serves a delivery in a request context of its own; contexts are
\* interchangeable, so a delivery takes the first free one.
Free(h) == hs[h].pc \in {"idle", "done"}
FirstFree(h) == Free(h) /\ \A g \in Handlers : g < h => ~Free(g)

\* webhooks.post('/stripe'), up to constructEventAsync: the signature verifies
Deliver(h, e) ==
    /\ FirstFree(h)
    /\ nDeliv < MaxDeliveries
    /\ Sent(e)
    /\ nDeliv' = nDeliv + 1
    /\ hs' = [hs EXCEPT ![h] = [Idle EXCEPT !.pc = "check", !.ev = e]]
    /\ UNCHANGED <<dbVars, sessions, faults, histVars>>
    /\ UNCHANGED shopVars

\* Faulty variant: the rejected request is entered in the ledger
RejectAndRecord(h, e) ==
    /\ FirstFree(h)
    /\ nDeliv < MaxDeliveries
    /\ nDeliv' = nDeliv + 1
    /\ hs' = [hs EXCEPT ![h] = [Idle EXCEPT !.pc = "done", !.ev = e, !.resp = 400]]
    /\ rejectedFirst' = IF firstAck[e] = NoResp /\ \A g \in Handlers : Free(g) \/ hs[g].ev # e
                        THEN rejectedFirst \cup {e} ELSE rejectedFirst
    /\ ledger' = ledger \cup {[id |-> e, type |-> EvType(e), error |-> "signature"]}
    /\ UNCHANGED <<stock, users, cartVars, orders, order_items, sessions, faults, histVars,
                   price_cents, product_name, rq, nReq, stock0>>

\* webhooks.post('/stripe'): constructEventAsync throws, HTTPException(400)
Reject(h, e) ==
    /\ FirstFree(h)
    /\ nDeliv < MaxDeliveries
    /\ nDeliv' = nDeliv + 1
    /\ hs' = [hs EXCEPT ![h] = [Idle EXCEPT !.pc = "done", !.ev = e, !.resp = 400]]
    /\ rejectedFirst' = IF firstAck[e] = NoResp /\ \A g \in Handlers : Free(g) \/ hs[g].ev # e
                        THEN rejectedFirst \cup {e} ELSE rejectedFirst
    /\ UNCHANGED <<dbVars, sessions, faults, histVars, price_cents, product_name, rq, nReq,
                   stock0>>

HasRow(tbl, e) == \E r \in tbl : r.id = e

\* where processStripeEvent first awaits, by event kind
FirstStep(e) ==
    CASE EvType(e) = "checkout.session.completed" ->
            IF SessionOf(e).cart_id = NoCart THEN "ledger" ELSE "retrieve"
      [] EvType(e) = "payment_intent.payment_failed" -> "failed"
      [] EvType(e) = "charge.refunded" -> "refunded"
      [] OTHER -> "ledger"

\* Faulty variant: a dedup check that skips only the events recorded without error
IsDuplicateSuccessOnly(tbl, e) == \E r \in tbl : r.id = e /\ r.error = NoError

\* SELECT id FROM stripe_webhook_events WHERE id = event.id;
\* if (existing.length) return {received: true, duplicate: true}
IsDuplicate(tbl, e) == HasRow(tbl, e)

CheckDuplicate(h) ==
    /\ hs[h].pc = "check"
    /\ IF IsDuplicate(ledger, hs[h].ev)
       THEN /\ hs' = [hs EXCEPT ![h].pc = "done", ![h].resp = 200, ![h].dup = TRUE]
            /\ Ack(hs[h].ev, 200)
       ELSE /\ hs' = [hs EXCEPT ![h].pc = FirstStep(hs[h].ev)]
            /\ UNCHANGED firstAck
    /\ UNCHANGED <<dbVars, sessions, nDeliv, faults, decCount, drift>>
    /\ UNCHANGED shopVars

\* stripe.checkout.sessions.retrieve(session.id, {expand: [...]})
RetrieveSession(h) ==
    /\ hs[h].pc = "retrieve"
    /\ hs' = [hs EXCEPT ![h].pc = "order"]
    /\ UNCHANGED <<dbVars, sessions, nDeliv, faults, histVars>>
    /\ UNCHANGED shopVars

\* Faulty variant: table orders without its UNIQUE constraints
NoOrderConflict(os, s) == FALSE

\* UNIQUE (stripe_session_id), UNIQUE (stripe_payment_intent_id) of table orders
OrderConflict(os, s) ==
    \E o \in Range(os) :
        o.stripe_session_id = s.id \/ o.stripe_payment_intent_id = s.payment_intent

\* where the handler goes after the line-item loop
AfterLines(s) ==
    IF SessionUser(s) # NoUser /\ s.customer # NoCustomer THEN "user" ELSE "clear"

\* where the handler goes after line i is done
NextLine(s, i) == IF i < Len(s.line_items) THEN "item" ELSE AfterLines(s)

\* INSERT INTO orders (...) VALUES (..., 'paid', session.id, ...) RETURNING id
InsertOrder(h) ==
    /\ hs[h].pc = "order"
    /\ LET s == SessionOf(hs[h].ev)
       IN  IF OrderConflict(orders, s)
           THEN /\ hs' = [hs EXCEPT ![h].pc = "catch", ![h].err = "orders_unique"]
                /\ UNCHANGED orders
           ELSE /\ orders' = Append(orders,
                      [id |-> Len(orders) + 1,
                       user_id |-> SessionUser(s),
                       status |-> "paid",
                       stripe_session_id |-> s.id,
                       stripe_payment_intent_id |-> s.payment_intent,
                       subtotal_cents |-> s.amount_subtotal,
                       total_cents |-> s.amount_subtotal])
                /\ hs' = [hs EXCEPT ![h].order = Len(orders) + 1,
                                    ![h].li = 1,
                                    ![h].pc = IF s.line_items = << >>
                                              THEN AfterLines(s) ELSE "item"]
    /\ UNCHANGED <<stock, users, cartVars, order_items, ledger, sessions, nDeliv,
                   faults, histVars>>
    /\ UNCHANGED shopVars

\* Faulty variant: the row is built from the catalog as it is at settlement
OrderItemFromCatalog(o, li) ==
    LET price == IF li.variant_id # NoVariant THEN price_cents[li.variant_id]
                 ELSE price_cents[li.product_id]
    IN  [order_id |-> o,
         product_id |-> li.product_id,
         product_name |-> <<product_name[li.product_id], VariantName(li.variant_id)>>,
         quantity |-> li.quantity,
         unit_price_cents |-> price,
         total_cents |-> price * li.quantity]

\* the order_items row of a line item of the retrieved session: product_id
\* from the product's metadata, li.description, li.quantity, li.price.unit_amount
OrderItemRow(o, li) ==
    [order_id |-> o,
     product_id |-> li.product_id,
     product_name |-> li.name,
     quantity |-> li.quantity,
     unit_price_cents |-> li.unit_amount,
     total_cents |-> li.unit_amount * li.quantity]

\* INSERT INTO order_items (order_id, product_id, product_name, quantity, ...)
InsertOrderItem(h) ==
    /\ hs[h].pc = "item"
    /\ LET s == SessionOf(hs[h].ev)
           li == s.line_items[hs[h].li]
       IN  /\ order_items' = Append(order_items, OrderItemRow(hs[h].order, li))
           /\ hs' = IF li.variant_id # NoVariant
                    THEN [hs EXCEPT ![h].pc = "stock"]
                    ELSE [hs EXCEPT ![h].pc = NextLine(s, hs[h].li), ![h].li = @ + 1]
    /\ UNCHANGED <<stock, users, cartVars, orders, ledger, sessions, nDeliv, faults,
                   histVars>>
    /\ UNCHANGED shopVars

\* Faulty variant: the new stock computed by the application from the stock it
\* read at the start, then written back
UpdateStockFromRead(h) ==
    /\ hs[h].pc = "stock"
    /\ LET s == SessionOf(hs[h].ev)
           li == s.line_items[hs[h].li]
       IN  /\ stock' = [stock EXCEPT ![li.variant_id] =
                           IF stock0[li.variant_id] - li.quantity > 0
                           THEN stock0[li.variant_id] - li.quantity ELSE 0]
           /\ decCount' = [decCount EXCEPT ![<<s.id, hs[h].li>>] = @ + 1]
           /\ hs' = [hs EXCEPT ![h].pc = NextLine(s, hs[h].li), ![h].li = @ + 1]
    /\ UNCHANGED <<users, cartVars, orders, order_items, ledger, sessions, nDeliv,
                   faults, drift, firstAck>>
    /\ UNCHANGED shopVars

\* Faulty variant: stock_qty - quantity, without GREATEST(0, ...)
DecrementUnfloored(qty, by) == qty - by

\* GREATEST(0, stock_qty - quantity)
Decrement(qty, by) == IF qty - by > 0 THEN qty - by ELSE 0

\* UPDATE variants SET stock_qty = GREATEST(0, stock_qty - li.quantity) WHERE id = ...
UpdateStock(h) ==
    /\ hs[h].pc = "stock"
    /\ LET s == SessionOf(hs[h].ev)
           li == s.line_items[hs[h].li]
       IN  /\ stock' = [stock EXCEPT ![li.variant_id] = Decrement(@, li.quantity)]
           /\ decCount' = [decCount EXCEPT ![<<s.id, hs[h].li>>] = @ + 1]
           /\ hs' = [hs EXCEPT ![h].pc = NextLine(s, hs[h].li), ![h].li = @ + 1]
    /\ UNCHANGED <<users, cartVars, orders, order_items, ledger, sessions, nDeliv,
                   faults, drift, firstAck>>
    /\ UNCHANGED shopVars

\* UPDATE users SET stripe_customer_id = session.customer WHERE id = userId
UpdateUser(h) ==
    /\ hs[h].pc = "user"
    /\ LET s == SessionOf(hs[h].ev)
       IN  users' = [users EXCEPT ![SessionUser(s)] = s.customer]
    /\ hs' = [hs EXCEPT ![h].pc = "clear"]
    /\ UNCHANGED <<stock, cartVars, orders, order_items, ledger, sessions, nDeliv,
                   faults, histVars>>
    /\ UNCHANGED shopVars

\* DELETE FROM cart_items WHERE cart_id = cartId
ClearCart(h) ==
    /\ hs[h].pc = "clear"
    /\ LET s == SessionOf(hs[h].ev)
       IN  cart_items' = SelectSeq(cart_items, LAMBDA r : r.cart_id # s.cart_id)
    /\ hs' = [hs EXCEPT ![h].pc = "ledger"]
    /\ UNCHANGED <<stock, users, carts, nItems, orders, order_items, ledger, sessions,
                   nDeliv, faults, histVars>>
    /\ UNCHANGED shopVars

\* UPDATE orders SET status = ... WHERE stripe_payment_intent_id = ...
SetStatus(os, pi, status) ==
    [i \in DOMAIN os |->
        IF os[i].stripe_payment_intent_id = pi THEN [os[i] EXCEPT !.status = status]
        ELSE os[i]]

\* case 'payment_intent.payment_failed'
PaymentFailed(h) ==
    /\ hs[h].pc = "failed"
    /\ orders' = SetStatus(orders, EvObj(hs[h].ev), "pending")
    /\ hs' = [hs EXCEPT ![h].pc = "ledger"]
    /\ UNCHANGED <<stock, users, cartVars, order_items, ledger, sessions, nDeliv,
                   faults, histVars>>
    /\ UNCHANGED shopVars

\* case 'charge.refunded'
ChargeRefunded(h) ==
    /\ hs[h].pc = "refunded"
    /\ orders' = SetStatus(orders, EvObj(hs[h].ev), "refunded")
    /\ hs' = [hs EXCEPT ![h].pc = "ledger"]
    /\ UNCHANGED <<stock, users, cartVars, order_items, ledger, sessions, nDeliv,
                   faults, histVars>>
    /\ UNCHANGED shopVars

\* INSERT INTO stripe_webhook_events (id, type, payload): PRIMARY KEY (id)
RecordSuccess(h) ==
    /\ hs[h].pc = "ledger"
    /\ LET e == hs[h].ev
       IN  IF HasRow(ledger, e)
           THEN /\ hs' = [hs EXCEPT ![h].pc = "catch", ![h].err = "events_pkey"]
                /\ UNCHANGED <<ledger, firstAck>>
           ELSE /\ ledger' = ledger \cup {[id |-> e, type |-> EvType(e), error |-> NoError]}
                /\ hs' = [hs EXCEPT ![h].pc = "done", ![h].resp = 200]
                /\ Ack(e, 200)
    /\ UNCHANGED <<stock, users, cartVars, orders, order_items, sessions, nDeliv,
                   faults, decCount, drift>>
    /\ UNCHANGED shopVars

\* Faulty variant: ON CONFLICT (id) DO NOTHING
UpsertIgnoreConflict(tbl, e, msg) ==
    IF \E r \in tbl : r.id = e THEN tbl
    ELSE tbl \cup {[id |-> e, type |-> EvType(e), error |-> msg]}

\* Faulty variant: the catch block records the event without the error column
UpsertWithoutError(tbl, e, msg) ==
    IF \E r \in tbl : r.id = e THEN tbl
    ELSE tbl \cup {[id |-> e, type |-> EvType(e), error |-> NoError]}

\* INSERT INTO stripe_webhook_events (id, type, payload, error) VALUES (...)
\* ON CONFLICT (id) DO UPDATE SET error = err.message
UpsertFailure(tbl, e, msg) ==
    IF HasRow(tbl, e)
    THEN {IF r.id = e THEN [r EXCEPT !.error = msg] ELSE r : r \in tbl}
    ELSE tbl \cup {[id |-> e, type |-> EvType(e), error |-> msg]}

\* catch (err) { ...; throw new HTTPException(500, ...) }
RecordFailure(h) ==
    /\ hs[h].pc = "catch"
    /\ ledger' = UpsertFailure(ledger, hs[h].ev, hs[h].err)
    /\ hs' = [hs EXCEPT ![h].pc = "done", ![h].resp = 500]
    /\ Ack(hs[h].ev, 500)
    /\ UNCHANGED <<stock, users, cartVars, orders, order_items, sessions, nDeliv,
                   faults, decCount, drift>>
    /\ UNCHANGED shopVars

\* A statement of processStripeEvent (a database statement or the call to the
\* payment processor) fails: it has no effect and throws.
ProcessingSteps == {"retrieve", "order", "item", "stock", "user", "clear", "failed", "refunded"}

StatementFails(h) ==
    /\ hs[h].pc \in ProcessingSteps
    /\ faults < MaxFaults
    /\ faults' = faults + 1
    /\ hs' = [hs EXCEPT ![h].pc = "catch", ![h].err = "io"]
    /\ UNCHANGED <<dbVars, sessions, nDeliv, histVars>>
    /\ UNCHANGED shopVars

\* ------------------------------------------------------------ the system
InitWith(levels) ==
    /\ stock \in [Variants -> levels]
    /\ users = [u \in Users |-> NoCustomer]
    /\ carts = << >>
    /\ cart_items = << >>
    /\ nItems = 0
    /\ sessions = << >>
    /\ orders = << >>
    /\ order_items = << >>
    /\ ledger = {}
    /\ hs = [h \in Handlers |-> Idle]
    /\ nDeliv = 0
    /\ faults = 0
    /\ decCount = [k \in SessionIds \X (1..MaxItems) |-> 0]
    /\ drift = {}
    /\ firstAck = [e \in EventIds |-> NoResp]
    /\ price_cents = [x \in Products \cup Variants |->
                         IF x \in Variants THEN VariantPrice(x) ELSE ProductPrice(x)]
    /\ product_name = [p \in Products |-> ProductName(p)]
    /\ rejectedFirst = {}
    /\ rq = [r \in Reqs |-> IdleReq]
    /\ nReq = 0
    /\ stock0 = stock

Init == InitWith(0..MaxStock)

Webhook(h) ==
    \/ \E e \in CheckoutEvents : Deliver(h, e)
    \/ CheckDuplicate(h)
    \/ RetrieveSession(h)
    \/ InsertOrder(h)
    \/ InsertOrderItem(h)
    \/ UpdateStock(h)
    \/ UpdateUser(h)
    \/ ClearCart(h)
    \/ RecordSuccess(h)
    \/ RecordFailure(h)
    \/ StatementFails(h)

Next ==
    \/ \E c \in Callers, ch \in ItemChoices : AddItem(c, ch[1], ch[2], DefaultQuantity)
    \/ \E c \in Callers : CreateSession(c)
    \/ \E h \in Handlers : Webhook(h)

Spec == Init /\ [][Next]_vars

\* The same system when the processor delivers one after another: a delivery
\* starts only when no other delivery is being handled.
NoneInFlight == \A h \in Handlers : Free(h)

NextSeq ==
    \/ \E c \in Callers, ch \in ItemChoices : AddItem(c, ch[1], ch[2], DefaultQuantity)
    \/ \E c \in Callers : CreateSession(c)
    \/ \E h \in Handlers :
          \/ NoneInFlight /\ \E e \in CheckoutEvents : Deliver(h, e)
          \/ CheckDuplicate(h)
          \/ RetrieveSession(h)
          \/ InsertOrder(h)
          \/ InsertOrderItem(h)
          \/ UpdateStock(h)
          \/ UpdateUser(h)
          \/ ClearCart(h)
          \/ RecordSuccess(h)
          \/ RecordFailure(h)
          \/ StatementFails(h)

SpecSeq == Init /\ [][NextSeq]_vars

\* Two shoppers (the signed-in user and a guest) put a variant in a cart each
\* and check out, and the processor delivers the payment-succeeded event of
\* each session once; no statement fails. Stock starts at any of StockLevels.
StockLevels == {0, 1, 2, 3}
PairQuantities == {1, 2}
PairEvents == {"e1", "e3"}
VariantChoices == {ch \in ItemChoices : ch[2] # NoVariant}

InitPair == InitWith(StockLevels)

NextPair ==
    \/ \E c \in Callers, ch \in VariantChoices, q \in PairQuantities : AddItem(c, ch[1], ch[2], q)
    \/ \E c \in Callers : Len(sessions) + 1 \in SessionIds /\ Checkout(c)
    \/ \E h \in Handlers :
          \/ \E e \in PairEvents :
                firstAck[e] = NoResp /\ (\A g \in Handlers : Free(g) \/ hs[g].ev # e) /\ Deliver(h, e)
          \/ CheckDuplicate(h)
          \/ RetrieveSession(h)
          \/ InsertOrder(h)
          \/ InsertOrderItem(h)
          \/ UpdateStock(h)
          \/ UpdateUser(h)
          \/ ClearCart(h)
          \/ RecordSuccess(h)

SpecPair == InitPair /\ [][NextPair]_vars

\* The shoppers' side alone: cart requests whose statements interleave (adds
\* of the default quantity, updates, removes), and one checkout.
\* the :itemId of a request: the id of a row ever inserted, or one never used
ItemIds == 1..(nItems + 1)

NextCart ==
    \/ \E r \in Reqs, c \in CartCallers, ch \in AddChoices :
          StartAdd(r, c, ch[1], ch[2], DefaultQuantity)
    \/ \E r \in Reqs, c \in CartCallers, i \in ItemIds, q \in UpdateQuantities :
          StartUpdate(r, c, i, q)
    \/ \E r \in Reqs, c \in CartCallers, i \in ItemIds : StartRemove(r, c, i)
    \/ \E r \in Reqs : CartStep(r)
    \/ \E c \in CartCallers : CreateSession(c)

SpecCart == Init /\ [][NextCart]_vars

\* Adds only, of any quantity.
NextAdds ==
    \/ \E r \in Reqs, c \in CartCallers, ch \in AddChoices, q \in Quantities :
          StartAdd(r, c, ch[1], ch[2], q)
    \/ \E r \in Reqs : ResolveSelect(r) \/ ResolveInsert(r) \/ WriteAdd(r) \/ Respond(r)

SpecAdds == Init /\ [][NextAdds]_vars

\* Adds of the default quantity, with the admin changing catalog prices in
\* between.
NextPrice ==
    \/ \E r \in Reqs, c \in CartCallers, ch \in ItemChoices :
          StartAdd(r, c, ch[1], ch[2], DefaultQuantity)
    \/ \E r \in Reqs : ResolveSelect(r) \/ ResolveInsert(r) \/ WriteAdd(r) \/ Respond(r)
    \/ \E p \in Products : SetPrice(p)

SpecPrice == Init /\ [][NextPrice]_vars

\* A round from cart to order while the catalog and the cart keep changing:
\* items are added before and after the checkout, products and variants are
\* repriced and renamed, and the payment-succeeded event "e1" of the session
\* is delivered, possibly twice at once.
NextRound ==
    \/ \E c \in Callers, ch \in ItemChoices : AddItem(c, ch[1], ch[2], DefaultQuantity)
    \/ \E p \in Products \cup Variants : SetPrice(p)
    \/ \E p \in Products : SetName(p)
    \/ \E c \in Callers : CreateSession(c)
    \/ \E h \in Handlers :
          \/ Deliver(h, "e1")
          \/ CheckDuplicate(h)
          \/ RetrieveSession(h)
          \/ InsertOrder(h)
          \/ InsertOrderItem(h)
          \/ UpdateStock(h)
          \/ UpdateUser(h)
          \/ ClearCart(h)
          \/ RecordSuccess(h)
          \/ RecordFailure(h)

\* every variant is in stock
InitRound == InitWith({MaxStock})

SpecRound == InitRound /\ [][NextRound]_vars

\* The endpoint under every kind of event: the payment-succeeded event of a
\* session, a payment-failed and a charge-refunded event of its payment, an
\* event of a kind the switch has no case for, and requests whose signature
\* does not verify.
ShopEvents == {"e1", "e5", "e6", "e7"}

NextEvents ==
    \/ \E c \in Callers, ch \in ItemChoices : AddItem(c, ch[1], ch[2], DefaultQuantity)
    \/ \E c \in Callers : CreateSession(c)
    \/ \E h \in Handlers :
          \/ \E e \in ShopEvents : Deliver(h, e)
          \/ \E e \in ShopEvents : Reject(h, e)
          \/ CheckDuplicate(h)
          \/ RetrieveSession(h)
          \/ InsertOrder(h)
          \/ InsertOrderItem(h)
          \/ UpdateStock(h)
          \/ UpdateUser(h)
          \/ ClearCart(h)
          \/ PaymentFailed(h)
          \/ ChargeRefunded(h)
          \/ RecordSuccess(h)
          \/ RecordFailure(h)

SpecEvents == InitRound /\ [][NextEvents]_vars

\* Checkout under failure: shoppers fill and empty carts and ask for Checkout
\* Sessions, and the payment processor may fail a request.
NextCheckout ==
    \/ \E c \in Callers, ch \in ItemChoices : AddItem(c, ch[1], ch[2], DefaultQuantity)
    \/ \E r \in Reqs, c \in Callers, i \in 1..nItems : StartRemove(r, c, i)
    \/ \E r \in Reqs, c \in Callers : StartCheckout(r, c)
    \/ \E r \in Reqs : ResolveSelect(r)
    \/ \E r \in Reqs : WriteRemove(r)
    \/ \E r \in Reqs : Respond(r)
    \/ \E r \in Reqs : CheckoutStep(r)

\* the stock level plays no part in a checkout request
InitCheckout == InitWith({MaxStock})

SpecCheckout == InitCheckout /\ [][NextCheckout]_vars

\* ================================================================ claims
Completed == "checkout.session.completed"

\* payment-succeeded events of a session created by checkout.post('/session')
CartEvents == {e \in CheckoutEvents : Sent(e) /\ SessionOf(e).cart_id # NoCart}

OrdersOf(sid) == {i \in DOMAIN orders : orders[i].stripe_session_id = sid}

ItemsOfOrder(o) == SelectSeq(order_items, LAMBDA r : r.order_id = o)

\* what an OrderItem keeps of a frozen line item
AsOrderItem(li) == <<li.product_id, li.name, li.quantity, li.unit_amount>>
OfOrderItem(r) == <<r.product_id, r.product_name, r.quantity, r.unit_price_cents>>

VariantLines(s) == {i \in DOMAIN s.line_items : s.line_items[i].variant_id # NoVariant}

Handled(e) == firstAck[e] # NoResp
InFlight(e) == \E h \in Handlers : hs[h].ev = e /\ ~Free(h)
DoneWith(h, e) == hs[h].pc = "done" /\ hs[h].ev = e

\* C1: a payment-succeeded event delivered N >= 1 times one after another
\* leaves exactly one Order, one stock decrement per variant line, and N
\* acknowledgments equal to the first one.
C1_Idempotent ==
    \A e \in CartEvents :
        Handled(e) /\ ~InFlight(e) =>
            /\ Cardinality(OrdersOf(EvObj(e))) = 1
            /\ \A i \in VariantLines(SessionOf(e)) : decCount[<<EvObj(e), i>>] = 1
            /\ \A h \in Handlers : DoneWith(h, e) => hs[h].resp = firstAck[e]

\* C2: two deliveries of the same payment-succeeded event, handled with their
\* statements interleaved in any order and no statement failing, leave exactly
\* one Order whose OrderItems are the session's line items, one stock
\* decrement per variant line, and the correlated cart without items.
BothDone(e) == \A h \in Handlers : DoneWith(h, e)

C2_ConcurrentSame ==
    \A e \in CartEvents :
        LET s == SessionOf(e)
        IN  BothDone(e) /\ faults = 0 /\ s.id \notin drift =>
                /\ Cardinality(OrdersOf(s.id)) = 1
                /\ \A o \in OrdersOf(s.id) :
                      MapSeq(ItemsOfOrder(o), OfOrderItem) = MapSeq(s.line_items, AsOrderItem)
                /\ \A i \in DOMAIN s.line_items :
                      decCount[<<s.id, i>>] = IF i \in VariantLines(s) THEN 1 ELSE 0
                /\ CartRows(cart_items, s.cart_id) = << >>

C2_Witness ==
    \E e \in CartEvents :
        /\ BothDone(e) /\ faults = 0 /\ EvObj(e) \notin drift
        /\ VariantLines(SessionOf(e)) # {}
        /\ \E h \in Handlers : hs[h].err = "orders_unique"

\* C3: when processing of a payment-succeeded event throws, nothing of that
\* attempt is visible afterwards: in particular not the Order it inserted.
ProcessingThrew(h) == hs[h].err \in {"io", "orders_unique"}

C3_Atomic ==
    \A h \in Handlers :
        hs[h].pc \in {"catch", "done"} /\ ProcessingThrew(h) =>
            ~\E i \in DOMAIN orders : orders[i].id = hs[h].order

\* C4: once a payment-succeeded event has been acknowledged with success (the
\* processor stops redelivering), exactly one Order exists for its session,
\* also when an earlier attempt answered a server error.
C4_RetryConverges ==
    \A e \in CartEvents :
        (\E h \in Handlers : DoneWith(h, e) /\ hs[h].resp = 200) =>
            Cardinality(OrdersOf(EvObj(e))) = 1

\* C5: a handler whose processing threw answers 500, and the ledger then
\* holds a row for the event that carries an error (so no success row).
C5_FailureRecorded ==
    \A h \in Handlers :
        hs[h].pc = "done" /\ hs[h].err # NoError =>
            /\ hs[h].resp = 500
            /\ HasRow(ledger, hs[h].ev)
            /\ \A r \in ledger : r.id = hs[h].ev => r.error # NoError

C5_Witness ==
    \E h \in Handlers :
        hs[h].pc = "done" /\ hs[h].err = "io" /\ hs[h].resp = 500 /\ HasRow(ledger, hs[h].ev)

\* C6: a delivery that finds a ledger row for its event (with or without
\* error) is answered 200 at once and changes no table.
C6_DuplicateNoOp ==
    [][\A h \in Handlers :
          hs[h].pc = "check" /\ HasRow(ledger, hs[h].ev) /\ hs'[h] # hs[h] =>
              /\ hs'[h].pc = "done"
              /\ hs'[h].resp = 200
              /\ UNCHANGED dbVars]_vars

C6_Witness ==
    \E h \in Handlers :
        /\ hs[h].pc = "done" /\ hs[h].dup /\ hs[h].resp = 200
        /\ \E r \in ledger : r.id = hs[h].ev /\ r.error # NoError

\* C7: a ledger row is never deleted or rewritten; in particular a row
\* recorded without error never acquires one.
C7_LedgerAppendOnly == [][\A r \in ledger : r \in ledger']_vars

\* C8 as stated: at most one ledger row per event, and a row without error for
\* a checkout.session.completed event only if an Order of its session exists.
OneRowPerEvent == \A r1, r2 \in ledger : r1.id = r2.id => r1 = r2

C8_Original ==
    /\ OneRowPerEvent
    /\ \A r \in ledger :
          r.type = Completed /\ r.error = NoError => OrdersOf(EvObj(r.id)) # {}

\* C8 amended: ... for a checkout.session.completed event whose session
\* carries a cart id in its metadata, only if an Order of its session exists.
C8_SuccessImpliesOrder ==
    /\ OneRowPerEvent
    /\ \A r \in ledger :
          r.type = Completed /\ r.error = NoError /\ SessionOf(r.id).cart_id # NoCart
              => OrdersOf(EvObj(r.id)) # {}

C8_Witness ==
    \E r \in ledger :
        /\ r.type = Completed /\ r.error = NoError /\ SessionOf(r.id).cart_id # NoCart
        /\ OrdersOf(EvObj(r.id)) # {}

\* C9: at most one Order per checkout session id, also when several events
\* with different ids refer to the session.
C9_OneOrderPerSession ==
    \A sid \in {orders[i].stripe_session_id : i \in DOMAIN orders} :
        Cardinality(OrdersOf(sid)) <= 1

C9_Witness ==
    \E e1, e2 \in CartEvents :
        /\ e1 # e2 /\ EvObj(e1) = EvObj(e2)
        /\ Handled(e1) /\ Handled(e2)
        /\ Cardinality(OrdersOf(EvObj(e1))) = 1

\* C10: stock is never negative; settling a line whose quantity exceeds the
\* remaining stock sets the stock to zero and the handler goes on.
ShortLine(h) ==
    /\ hs[h].pc = "stock"
    /\ LET li == SessionOf(hs[h].ev).line_items[hs[h].li]
       IN  li.quantity > stock[li.variant_id]

C10_StockFloor ==
    /\ [](\A v \in Variants : stock[v] \in Nat)
    /\ [][\A h \in Handlers :
            ShortLine(h) /\ hs'[h] # hs[h] /\ hs'[h].pc # "catch" =>
                /\ stock'[SessionOf(hs[h].ev).line_items[hs[h].li].variant_id] = 0
                /\ hs'[h].pc \in {"item", "user", "clear"}]_vars

C10_Witness ==
    \E e \in CartEvents :
        /\ \E i \in VariantLines(SessionOf(e)) :
              /\ SessionOf(e).line_items[i].quantity > MaxStock
              /\ decCount[<<EvObj(e), i>>] = 1
              /\ stock[SessionOf(e).line_items[i].variant_id] = 0
        /\ \E h \in Handlers : DoneWith(h, e) /\ hs[h].resp = 200 /\ ~hs[h].dup

\* C11: when the payment-succeeded events of two different sessions whose line
\* items name the same variant, with quantities a and b, have both been settled
\* (their handlers interleaved in any order), the variant's stock is
\* max(0, s - a - b) for initial stock s: no decrement is lost.
Settled(e) == Sent(e) /\ HasRow(ledger, e) /\ ~InFlight(e)

SoldIn(s, v) ==
    SumSeq(MapSeq(s.line_items, LAMBDA li : IF li.variant_id = v THEN li.quantity ELSE 0))

C11_NoLostUpdate ==
    \A v \in Variants :
        (\A e \in PairEvents : Settled(e)) =>
            LET left == stock0[v] - SoldIn(sessions[1], v) - SoldIn(sessions[2], v)
            IN  stock[v] = IF left > 0 THEN left ELSE 0

C11_Witness ==
    /\ \A e \in PairEvents : Settled(e)
    /\ \A h \in Handlers : hs[h].pc = "done" /\ hs[h].resp = 200 /\ ~hs[h].dup
    /\ hs[1].ev # hs[2].ev
    /\ \E v \in Variants :
          /\ SoldIn(sessions[1], v) > 0
          /\ SoldIn(sessions[2], v) > 0
          /\ SoldIn(sessions[1], v) # SoldIn(sessions[2], v)
          /\ stock0[v] > SoldIn(sessions[1], v) + SoldIn(sessions[2], v) - 1
          /\ sessions[1].cart_id # sessions[2].cart_id

\* C12: no statement of addItem, updateQuantity, removeItem or createSession
\* changes a stock counter; createSession leaves the cart items alone and
\* changes nothing in the database but the session id recorded on the cart.
C12_Frame ==
    [][/\ stock' = stock
       /\ sessions' # sessions =>
             /\ cart_items' = cart_items
             /\ UNCHANGED <<users, nItems, orders, order_items, ledger>>
             /\ \E c \in DOMAIN carts :
                   carts' = [carts EXCEPT ![c].stripe_session_id = Len(sessions')]]_vars

C12_Witness ==
    /\ sessions # << >>
    /\ \E c \in DOMAIN carts : carts[c].stripe_session_id # NoSess /\ carts[c].session_token # NoToken
    /\ \E r \in Reqs : rq[r].pc = "done" /\ rq[r].op = "remove" /\ rq[r].wrote

\* C13: every successful addItem leaves exactly one row for its (cart,
\* product, variant); the row of a first add holds the requested quantity and
\* the price the call captured, the row of a later add holds the earlier
\* quantity plus the requested one and the earlier price (so: the sum of the
\* requested quantities, at the price of the first add).
Lines(items, c, p, v) ==
    {i \in DOMAIN items :
        items[i].cart_id = c /\ items[i].product_id = p /\ items[i].variant_id = v}

AddWrites(r) == rq[r].pc = "write" /\ rq[r].op = "add" /\ rq'[r].pc = "respond"

C13_SumAndFirstPrice ==
    [][\A r \in Reqs :
          AddWrites(r) =>
            LET before == Lines(cart_items, rq[r].cart, rq[r].product, rq[r].variant)
                after == Lines(cart_items', rq[r].cart, rq[r].product, rq[r].variant)
            IN  /\ Cardinality(after) = 1
                /\ \A i \in after :
                      IF before = {}
                      THEN /\ cart_items'[i].quantity = rq[r].quantity
                           /\ cart_items'[i].price_cents = rq[r].price
                      ELSE \A j \in before :
                             /\ cart_items'[i].quantity = cart_items[j].quantity + rq[r].quantity
                             /\ cart_items'[i].price_cents = cart_items[j].price_cents]_vars

\* C14: at most one cart_items row per (cart, product, variant), the tuple
\* without variant included.
C14_OneRowPerLine ==
    \A i, j \in DOMAIN cart_items :
        /\ cart_items[i].cart_id = cart_items[j].cart_id
        /\ cart_items[i].product_id = cart_items[j].product_id
        /\ cart_items[i].variant_id = cart_items[j].variant_id
        => i = j

\* C15: right after a successful addItem for a variant line, the line's
\* quantity does not exceed the stock the call read.
C15_CumulativeStock ==
    [][\A r \in Reqs :
          AddWrites(r) /\ rq[r].variant # NoVariant =>
            \A i \in Lines(cart_items', rq[r].cart, rq[r].product, rq[r].variant) :
                cart_items'[i].quantity <= rq[r].stock_qty]_vars

\* C16: an addItem that fails has changed neither table carts nor table
\* cart_items.
FailedAdd(r) == rq[r].pc = "done" /\ rq[r].op = "add" /\ rq[r].status >= 400

C16_FailedAddNoChange == \A r \in Reqs : FailedAdd(r) => ~rq[r].wrote

\* C17: an addItem asking for a quantity below 1 never succeeds and writes no
\* cart_items row, no addItem lowers a stored quantity, and every stored
\* quantity is at least 1.
C17_QuantityAtLeastOne ==
    /\ [](\A i \in DOMAIN cart_items : cart_items[i].quantity >= 1)
    /\ [](\A r \in Reqs :
            rq[r].op = "add" /\ rq[r].quantity < 1 => rq[r].pc \notin {"respond"} /\ rq[r].status # 201)
    /\ [][\A r \in Reqs :
            rq[r].op = "add" /\ rq'[r] # rq[r] /\ rq[r].pc = "write" =>
              /\ rq[r].quantity < 1 => cart_items' = cart_items
              /\ \A i \in DOMAIN cart_items :
                    i \in DOMAIN cart_items' /\ cart_items'[i].quantity >= cart_items[i].quantity]_vars

C17_Witness ==
    \E r \in Reqs :
        /\ rq[r].pc = "done" /\ rq[r].op = "add" /\ rq[r].quantity < 1 /\ rq[r].status = 500
        /\ Lines(cart_items, rq[r].cart, rq[r].product, rq[r].variant) # {}

\* C18: removeItem answers success for every caller and item id, also when
\* the caller's cart does not resolve.
C18_RemoveSucceeds ==
    \A r \in Reqs : rq[r].pc = "done" /\ rq[r].op = "remove" => rq[r].status = 200

\* C19: a request that carries an identity works on the latest cart owned by
\* that identity: no statement of it changes an anonymous cart or its items,
\* the cart it resolves is the identity's most recently created one, and the
\* snapshot it returns holds rows of that cart only.
Anonymous(cs) == {i \in DOMAIN cs : cs[i].user_id = NoUser}

OwnedBy(cs, u) == {i \in DOMAIN cs : cs[i].user_id = u}

Newest(cs, u, c) == c \in OwnedBy(cs, u) /\ \A j \in OwnedBy(cs, u) : j <= c

C19_IdentityWins ==
    [][/\ \A r \in Reqs :
            rq'[r] # rq[r] /\ rq'[r].caller.user # NoUser =>
              /\ \A i \in Anonymous(carts) :
                    carts'[i] = carts[i] /\ CartRows(cart_items', i) = CartRows(cart_items, i)
              /\ rq'[r].cart \notin {NoCart, rq[r].cart} =>
                    Newest(carts', rq'[r].caller.user, rq'[r].cart)
              /\ \A i \in DOMAIN rq'[r].snap : rq'[r].snap[i].cart_id = rq'[r].cart
       /\ sessions' # sessions /\ sessions'[Len(sessions')].user_id # "anonymous" =>
              /\ Newest(carts, sessions'[Len(sessions')].user_id, sessions'[Len(sessions')].cart_id)
              /\ \A i \in Anonymous(carts) : carts'[i] = carts[i]]_vars

C19_Witness ==
    \E r \in Reqs :
        /\ rq[r].pc = "done" /\ rq[r].status = 201
        /\ rq[r].caller.user # NoUser /\ rq[r].caller.token # NoToken
        /\ \E i \in Anonymous(carts) :
              carts[i].session_token = rq[r].caller.token /\ CartRows(cart_items, i) # << >>

\* C20: the handle of every anonymous cart was minted by resolveCart
\* (crypto.randomUUID), never chosen by the client.
C20_MintedHandles ==
    \A i \in Anonymous(carts) : carts[i].session_token[1] = "uuid"

\* C21: a checkout request that ends in an error (400 Cart is empty, 500 after
\* the payment processor failed) has written nothing: no statement of the
\* request changed a table, the step that fails changes none either, and a
\* request answered 400 never reached the payment processor.
C21_FailedCheckoutCommitsNothing ==
    [][\A r \in Reqs :
          (rq'[r] # rq[r] /\ rq'[r].op = "checkout" /\ rq'[r].status >= 400)
          => /\ UNCHANGED dbVars
             /\ ~rq'[r].wrote
             /\ rq'[r].status = 400 => (~rq'[r].asked /\ UNCHANGED sessions)]_vars

C21_Witness ==
    \E r \in Reqs :
        /\ rq[r].op = "checkout" /\ rq[r].pc = "done" /\ rq[r].status = 500
        /\ rq[r].asked
        /\ CartRows(cart_items, rq[r].cart) # << >>
        /\ carts[rq[r].cart].stripe_session_id = NoSess

\* the session of event e is no longer the one recorded on its cart
Superseded(e) ==
    LET s == SessionOf(e)
    IN  s.cart_id # NoCart /\ carts[s.cart_id].stripe_session_id # s.id

\* C22: only the session recorded on the cart is honored: a handler of a
\* payment-succeeded event whose session was overwritten on the cart by a
\* later checkout creates no order, decrements no stock and clears no cart.
C22_OnlyLatestHonored ==
    [][\A h \in Handlers :
          (hs'[h] # hs[h] /\ hs[h].ev \in CheckoutEvents /\ Sent(hs[h].ev)
             /\ Superseded(hs[h].ev))
          => UNCHANGED <<orders, order_items, stock, cart_items>>]_vars

\* cart item row is one of the line items frozen in session s
Frozen(row, s) ==
    \E k \in DOMAIN s.line_items :
        /\ s.line_items[k].product_id = row.product_id
        /\ s.line_items[k].variant_id = row.variant_id
        /\ s.line_items[k].quantity = row.quantity
        /\ s.line_items[k].unit_amount = row.price_cents

\* C23: settlement never deletes a cart item that was not part of the frozen
\* snapshot: every row the handler's DELETE removes is a line of its session.
C23_DeletesOnlyFrozen ==
    [][\A h \in Handlers :
          (hs[h].pc = "clear" /\ hs'[h].pc = "ledger")
          => \A i \in DOMAIN cart_items :
                cart_items[i] \notin Range(cart_items')
                => Frozen(cart_items[i], SessionOf(hs[h].ev))]_vars

\* the handler answered 200 after processing the event itself
Succeeded(h) == hs[h].pc = "done" /\ hs[h].resp = 200 /\ ~hs[h].dup

\* the catalog entry a line item was priced from
PricedFrom(li) == IF li.variant_id # NoVariant THEN li.variant_id ELSE li.product_id

PaymentFailedKind == "payment_intent.payment_failed"
RefundedKind == "charge.refunded"
HandledKinds == {Completed, PaymentFailedKind, RefundedKind}

\* the handler processed its event and has answered
Processed(h) == hs[h].pc = "done" /\ hs[h].resp \in {200, 500} /\ ~hs[h].dup

\* orders of the payment the event is about
OrdersOfPayment(os, e) == {i \in DOMAIN os : os[i].stripe_payment_intent_id = EvObj(e)}

\* C25: a payment-failed event processed for the first time is recorded with an
\* error (Recorded-Failure), and processing it creates no order.
C25_PaymentFailedRecordedFailure ==
    /\ \A h \in Handlers :
          Processed(h) /\ EvType(hs[h].ev) = PaymentFailedKind
          => \E r \in ledger : r.id = hs[h].ev /\ r.error # NoError
    /\ \A h \in Handlers :
          ~Free(h) /\ EvType(hs[h].ev) = PaymentFailedKind => hs[h].order = NoOrder

\* C26: a charge-refunded event sets the orders of its payment to refunded; when
\* it is recorded by the handler that processed it, the row is without error if
\* an order matched and carries an error if none did; the handler always answers.
C26_RefundRecorded ==
    [][\A h \in Handlers :
          /\ (hs[h].pc = "refunded" /\ hs'[h].pc = "ledger")
             => \A i \in OrdersOfPayment(orders', hs[h].ev) : orders'[i].status = "refunded"
          /\ (~Free(h) /\ EvType(hs[h].ev) = RefundedKind /\ hs'[h].pc = "done")
             => \E r \in ledger' :
                   /\ r.id = hs[h].ev
                   /\ (r.error = NoError) <=> (OrdersOfPayment(orders, hs[h].ev) # {})]_vars

\* C27: a handler of an event of a kind without a case changes no order, order
\* item, stock, cart or user, answers 200 and leaves the event recorded without
\* error.
C27_UnknownKindNoOp ==
    [][\A h \in Handlers :
          (~Free(h) /\ hs'[h] # hs[h] /\ EvType(hs[h].ev) \notin HandledKinds)
          => /\ UNCHANGED <<orders, order_items, stock, cartVars, users>>
             /\ hs'[h].pc = "done"
                => /\ hs'[h].resp = 200
                   /\ \E r \in ledger' : r.id = hs[h].ev /\ r.error = NoError]_vars

\* C28: a request whose signature does not verify is answered 400 and changes
\* no table, the ledger included; the next valid delivery of an event that was
\* only ever rejected is found unseen by the dedup check and processed.
C28_InvalidSignatureRejected ==
    [][\A h \in Handlers :
          /\ (hs'[h] # hs[h] /\ hs'[h].resp = 400)
             => UNCHANGED <<dbVars, sessions, firstAck>>
          /\ (hs[h].pc = "check" /\ hs'[h].pc # "check" /\ hs[h].ev \in rejectedFirst
                /\ firstAck[hs[h].ev] = NoResp)
             => ~hs'[h].dup /\ hs'[h].pc = FirstStep(hs[h].ev)]_vars

C28_Witness ==
    \E h \in Handlers :
        /\ hs[h].ev \in rejectedFirst
        /\ hs[h].pc = "done" /\ hs[h].resp = 200 /\ ~hs[h].dup
        /\ EvType(hs[h].ev) = Completed /\ OrdersOf(EvObj(hs[h].ev)) # {}

\* C29: whenever no handler is in flight, every order of a session is covered
\* by a ledger row without error of a payment-succeeded event of that session.
C29_OrderImpliesSuccessRow ==
    NoneInFlight =>
        \A i \in DOMAIN orders :
            \E r \in ledger :
                /\ r.id \in CheckoutEvents /\ EvObj(r.id) = orders[i].stripe_session_id
                /\ r.error = NoError

\* C30: the status of an order never moves backwards: paid does not become
\* pending, and refunded does not become paid or pending.
C30_StatusNeverBackwards ==
    [][\A i \in DOMAIN orders :
          /\ orders[i].status = "paid" => orders'[i].status # "pending"
          /\ orders[i].status = "refunded" => orders'[i].status = "refunded"]_vars

====
